---- MODULE Spec2Model ----
(***************************************************************************)
(* Model of clrs/_src/algorithms/searching.py: the five probe-emitting     *)
(* algorithms minimum, parallel_find, parallel_search, binary_search and   *)
(* quickselect.  One behaviour is one top-level call; the algorithm and    *)
(* its arguments are drawn in Init.  Arrays are functions on 0..n-1, as in *)
(* the source; Python's negative indexing and IndexError are modelled by   *)
(* InRange/At.  The probing module (push, finalize, mask_one, array) is    *)
(* not part of the sources at hand and is modelled from its description.   *)
(***************************************************************************)
EXTENDS Integers, Sequences, FiniteSets, TLC

\* ---- bounds -------------------------------------------------------------
MaxLen == 4
MaxVal == 3
RecursionLimit == 6
RankSlack == 1
FairMaxVal == 2

Val == 1..MaxVal
Targets == 0..(MaxVal + 1)
Arrays == UNION {[0..(len - 1) -> Val] : len \in 1..MaxLen}
Algorithms == {"minimum", "parallel_find", "parallel_search",
               "binary_search", "quickselect"}

VARIABLES alg, A0, i0, A, x, i, probes, result, err, pc,
          min_, B, low, high,
          A_pos, p, r, q, depth, part_x, part_i, j

vars == <<alg, A0, i0, A, x, i, probes, result, err, pc,
          min_, B, low, high,
          A_pos, p, r, q, depth, part_x, part_i, j>>

common == <<alg, A0, i0, x>>
minVars == <<min_>>
psVars == <<B>>
bsVars == <<low, high>>
qsVars == <<A_pos, p, r, q, depth, part_x, part_i, j>>

\* ---- numpy / Python helpers ----------------------------------------------
\* A.shape[0]
Shape(arr) == Cardinality(DOMAIN arr)

\* np.arange(n)
arange(len) == [k \in 0..(len - 1) |-> k]

\* v * 1.0 / n, kept as an exact fraction
Frac(a, b) == [num |-> a, den |-> b]

\* np.copy(A_pos) * 1.0 / n
Normalized(arr) == [k \in DOMAIN arr |-> Frac(arr[k], Shape(arr))]

\* Python/numpy indexing: k in -n..n-1 is legal, negative k counts from the end
InRange(arr, k) == k \in (0 - Shape(arr))..(Shape(arr) - 1)
Wrap(arr, k) == IF k < 0 THEN k + Shape(arr) ELSE k
AtIndex(arr, k) == Wrap(arr, k)

At(arr, k) == arr[Wrap(arr, k)]

SwapLosingTmp(arr, a, b) == [arr EXCEPT ![Wrap(arr, a)] = At(arr, b)]

\* tmp = arr[a]; arr[a] = arr[b]; arr[b] = tmp
Swap(arr, a, b) ==
  [arr EXCEPT ![Wrap(arr, a)] = At(arr, b), ![Wrap(arr, b)] = At(arr, a)]

\* ---- probing (encoder and trace) -----------------------------------------
EncodingError == "EncodingError"

mask_one(idx, card) ==
  IF idx \in 0..(card - 1)
  THEN [k \in 0..(card - 1) |-> IF k = idx THEN 1 ELSE 0]
  ELSE EncodingError

array(values) == [k \in DOMAIN values |-> values[k]]

initialize == [log |-> <<>>, finalized |-> 0, error |-> ""]

Stages(pr) == [k \in 1..Len(pr.log) |-> pr.log[k].stage]
Count(pr, stage) == Cardinality({k \in 1..Len(pr.log) : pr.log[k].stage = stage})

PushLegal(pr, stage) ==
  /\ pr.finalized = 0
  /\ pr.error = ""
  /\ Count(pr, "OUTPUT") = 0
  /\ stage = "INPUT" => Count(pr, "INPUT") = 0
  /\ stage # "INPUT" => Count(pr, "INPUT") = 1

push(pr, stage, next_probe) ==
  IF PushLegal(pr, stage)
  THEN [pr EXCEPT !.log = Append(@, [stage |-> stage, probe |-> next_probe])]
  ELSE [pr EXCEPT !.error = "ProtocolError"]

finalize(pr) ==
  IF /\ pr.finalized = 0
     /\ pr.error = ""
     /\ Count(pr, "INPUT") = 1
     /\ Count(pr, "OUTPUT") = 1
  THEN [pr EXCEPT !.finalized = 1]
  ELSE [pr EXCEPT !.error = "ProtocolError"]

\* the pushes of one stage, in order
Pushed(pr, stage) == SelectSeq(pr.log, LAMBDA e : e.stage = stage)
Hints(pr) == Pushed(pr, "HINT")

\* a call either moves on to its next step or aborts on a trace error
Goto(next) ==
  /\ pc' = IF probes'.error = "" THEN next ELSE "aborted"
  /\ err' = probes'.error

\* ---- the call ------------------------------------------------------------
Init ==
  /\ alg \in Algorithms
  /\ A0 \in Arrays
  /\ A = A0
  /\ x \in (IF alg \in {"minimum", "quickselect"} THEN {0} ELSE Targets)
  /\ i0 \in (IF alg = "quickselect"
             THEN (0 - RankSlack)..(Shape(A0) - 1 + RankSlack)
             ELSE {0})
  /\ i = i0
  /\ probes = initialize
  /\ result = 0 - 1
  /\ err = ""
  /\ pc = "start"
  /\ min_ = 0
  /\ B = <<>>
  /\ low = 0
  /\ high = 0
  /\ A_pos = <<>>
  /\ p = 0
  /\ r = 0
  /\ q = 0
  /\ depth = 0
  /\ part_x = 0
  /\ part_i = 0
  /\ j = 0

n == Shape(A)

\* ---- minimum -------------------------------------------------------------
MinimumHintSwapped(m, t) ==
  [pred_h |-> array(arange(n)), min_h |-> mask_one(t, n), i |-> mask_one(m, n)]

MinimumHint(m, t) ==
  [pred_h |-> array(arange(n)), min_h |-> mask_one(m, n), i |-> mask_one(t, n)]

MinimumStart ==
  /\ alg = "minimum" /\ pc = "start"
  /\ probes' = push(push(initialize, "INPUT",
                         [pos |-> Normalized(arange(n)), key |-> A]),
                    "HINT", MinimumHint(0, 0))
  /\ min_' = 0
  /\ i' = 1
  /\ Goto("min_loop")
  /\ UNCHANGED <<common, A, result, psVars, bsVars, qsVars>>

MinimumUpdateNonStrict(m, t) == IF A[m] >= A[t] THEN t ELSE m

\* if A[min_] > A[i]: min_ = i
MinimumUpdate(m, t) == IF A[m] > A[t] THEN t ELSE m

MinimumLoop ==
  /\ alg = "minimum" /\ pc = "min_loop"
  /\ i < n
  /\ min_' = MinimumUpdate(min_, i)
  /\ probes' = push(probes, "HINT", MinimumHint(min_', i))
  /\ i' = i + 1
  /\ Goto("min_loop")
  /\ UNCHANGED <<common, A, result, psVars, bsVars, qsVars>>

MinimumFinish ==
  /\ alg = "minimum" /\ pc = "min_loop"
  /\ i >= n
  /\ probes' = finalize(push(probes, "OUTPUT", [min |-> mask_one(min_, n)]))
  /\ result' = min_
  /\ Goto("done")
  /\ UNCHANGED <<common, A, i, minVars, psVars, bsVars, qsVars>>

\* minimum as a function of its argument: the loop above run to its end
RECURSIVE MinimumScan(_, _, _)
MinimumScan(arr, m, t) ==
  IF t >= Shape(arr)
  THEN m
  ELSE MinimumScan(arr, IF arr[m] > arr[t] THEN t ELSE m, t + 1)

MinimumOf(arr) == MinimumScan(arr, 0, 1)

\* ---- parallel_find -----------------------------------------------------
\* np.where(arr == v)[0]: the matching indices, in increasing order
where(arr, v) == {k \in DOMAIN arr : arr[k] = v}

LastMatch(arr, v) ==
  CHOOSE k \in where(arr, v) : \A m \in where(arr, v) : k >= m

\* np.where(arr == v)[0][0]
FirstMatch(arr, v) ==
  CHOOSE k \in where(arr, v) : \A m \in where(arr, v) : k <= m

ParallelFindStart ==
  /\ alg = "parallel_find" /\ pc = "start"
  /\ probes' = push(initialize, "INPUT",
                    [pos |-> arange(n), key |-> A, target |-> x])
  /\ Goto("pf_where")
  /\ UNCHANGED <<common, A, i, result, minVars, psVars, bsVars, qsVars>>

ParallelFindReturn ==
  /\ alg = "parallel_find" /\ pc = "pf_where"
  /\ where(A, x) # {}
  /\ i' = FirstMatch(A, x)
  /\ probes' = finalize(push(probes, "OUTPUT", [return |-> mask_one(i', n)]))
  /\ result' = i'
  /\ Goto("done")
  /\ UNCHANGED <<common, A, minVars, psVars, bsVars, qsVars>>

\* indexing the empty match list raises IndexError
ParallelFindRaise ==
  /\ alg = "parallel_find" /\ pc = "pf_where"
  /\ where(A, x) = {}
  /\ err' = "IndexError"
  /\ pc' = "aborted"
  /\ UNCHANGED <<common, A, i, probes, result, minVars, psVars, bsVars, qsVars>>

\* ---- parallel_search ---------------------------------------------------
\* np.ones_like(arr)
ones_like(arr) == [k \in DOMAIN arr |-> 1]

ParallelSearchStart ==
  /\ alg = "parallel_search" /\ pc = "start"
  /\ probes' = push(initialize, "INPUT",
                    [pos |-> arange(n), key |-> A, target |-> x])
  /\ B' = ones_like(A)
  /\ i' = 0
  /\ Goto("ps_loop")
  /\ UNCHANGED <<common, A, result, minVars, bsVars, qsVars>>

\* while i < len(A) and x > A[i]
ScanCond(k) == k < n /\ x > A[k]

ParallelSearchLoop ==
  /\ alg = "parallel_search" /\ pc = "ps_loop"
  /\ ScanCond(i)
  /\ B' = [B EXCEPT ![i] = 0]
  /\ i' = i + 1
  /\ UNCHANGED <<common, A, probes, result, err, pc, minVars, bsVars, qsVars>>

ParallelSearchFinish ==
  /\ alg = "parallel_search" /\ pc = "ps_loop"
  /\ ~ScanCond(i)
  /\ probes' = finalize(push(push(probes, "HINT", [geq_target |-> B]),
                             "OUTPUT", [return |-> i]))
  /\ result' = i
  /\ Goto("done")
  /\ UNCHANGED <<common, A, i, minVars, psVars, bsVars, qsVars>>

\* ---- binary_search -----------------------------------------------------
BinaryHintMidCeil(lo, hi) ==
  [pred_h |-> array(arange(n)), low |-> mask_one(lo, n),
   high |-> mask_one(hi, n), mid |-> mask_one((lo + hi + 1) \div 2, n)]

BinaryHint(lo, hi) ==
  [pred_h |-> array(arange(n)), low |-> mask_one(lo, n),
   high |-> mask_one(hi, n), mid |-> mask_one((lo + hi) \div 2, n)]

BinarySearchStart ==
  /\ alg = "binary_search" /\ pc = "start"
  /\ probes' = push(push(initialize, "INPUT",
                         [pos |-> Normalized(arange(n)), key |-> A,
                          target |-> x]),
                    "HINT", BinaryHint(0, n - 1))
  /\ low' = 0
  /\ high' = n - 1
  /\ Goto("bs_loop")
  /\ UNCHANGED <<common, A, i, result, minVars, psVars, qsVars>>

GoLeftStrict(mid) == x < A[mid]

GoLeftReversed(mid) == x >= A[mid]

\* if x <= A[mid]: high = mid  else: low = mid + 1
GoLeft(mid) == x <= A[mid]

MidAtLow(lo, hi) == lo

\* mid = (low + high) // 2
Mid(lo, hi) == (lo + hi) \div 2

BinarySearchLoop ==
  /\ alg = "binary_search" /\ pc = "bs_loop"
  /\ low < high
  /\ LET mid == Mid(low, high)
     IN /\ high' = IF GoLeft(mid) THEN mid ELSE high
        /\ low' = IF GoLeft(mid) THEN low ELSE mid + 1
  /\ probes' = push(probes, "HINT", BinaryHint(low', high'))
  /\ Goto("bs_loop")
  /\ UNCHANGED <<common, A, i, result, minVars, psVars, qsVars>>

BinarySearchFinish ==
  /\ alg = "binary_search" /\ pc = "bs_loop"
  /\ ~(low < high)
  /\ probes' = finalize(push(probes, "OUTPUT", [return |-> mask_one(high, n)]))
  /\ result' = high
  /\ Goto("done")
  /\ UNCHANGED <<common, A, i, minVars, psVars, bsVars, qsVars>>

\* ---- quickselect --------------------------------------------------------
PartitionHintTopRank(pos, bound, scan, rank) ==
  [pred_h |-> array(pos),
   p |-> mask_one(At(pos, p), n),
   r |-> mask_one(At(pos, r), n),
   i |-> mask_one(At(pos, bound), n),
   j |-> mask_one(At(pos, scan), n),
   i_rank |-> Frac(rank, n),
   target |-> Frac(i0, n)]

PartitionHint(pos, bound, scan, rank) ==
  [pred_h |-> array(pos),
   p |-> mask_one(At(pos, p), n),
   r |-> mask_one(At(pos, r), n),
   i |-> mask_one(At(pos, bound), n),
   j |-> mask_one(At(pos, scan), n),
   i_rank |-> Frac(rank, n),
   target |-> Frac(i, n)]

IsOutermostAlways == TRUE

\* "probes is None": true of the top-level call only
IsOutermost == pc = "start"

\* entry of one activation: the defaults and the INPUT push of the outermost
\* call (probes is None), then the first lines of partition
QuickselectEnter ==
  /\ alg = "quickselect" /\ pc \in {"start", "qs_call"}
  /\ IF IsOutermost
     THEN /\ A_pos' = arange(n)
          /\ p' = 0
          /\ r' = n - 1
          /\ probes' = push(initialize, "INPUT",
                            [pos |-> Normalized(arange(n)), key |-> A])
     ELSE UNCHANGED <<A_pos, p, r, probes>>
  /\ IF InRange(A, r')
     THEN /\ part_x' = At(A, r')
          /\ part_i' = p' - 1
          /\ j' = p'
          /\ Goto("partition")
     ELSE /\ err' = "IndexError"
          /\ pc' = "aborted"
          /\ UNCHANGED <<part_x, part_i, j>>
  /\ UNCHANGED <<common, A, i, result, q, depth, minVars, psVars, bsVars>>

SwapPosForgotten(pos, a, b) == pos

\* tmp = A_pos[a]; A_pos[a] = A_pos[b]; A_pos[b] = tmp
SwapPos(pos, a, b) == Swap(pos, a, b)

ScanTestStrict(k) == A[k] < part_x

ScanTestReversed(k) == A[k] >= part_x

\* if A[j] <= x
ScanTest(k) == A[k] <= part_x

\* one iteration of "for j in range(p, r)"
PartitionScan ==
  /\ alg = "quickselect" /\ pc = "partition"
  /\ j < r
  /\ IF ScanTest(j)
     THEN /\ part_i' = part_i + 1
          /\ A' = Swap(A, part_i', j)
          /\ A_pos' = SwapPos(A_pos, part_i', j)
     ELSE UNCHANGED <<part_i, A, A_pos>>
  /\ probes' = push(probes, "HINT",
                    PartitionHint(A_pos', part_i' + 1, j, part_i' + 1))
  /\ j' = j + 1
  /\ Goto("partition")
  /\ UNCHANGED <<common, i, result, p, r, q, depth, part_x,
                 minVars, psVars, bsVars>>

\* after the scan: the pivot swap, the closing HINT and "return i + 1"
PartitionClose ==
  /\ alg = "quickselect" /\ pc = "partition"
  /\ j >= r
  /\ IF InRange(A, part_i + 1) /\ InRange(A, r) /\ InRange(A, p)
     THEN /\ A' = Swap(A, part_i + 1, r)
          /\ A_pos' = SwapPos(A_pos, part_i + 1, r)
          /\ probes' = push(probes, "HINT",
                            PartitionHint(A_pos', part_i + 1, r, part_i + 1 - p))
          /\ q' = part_i + 1
          /\ Goto("qs_branch")
     ELSE /\ err' = "IndexError"
          /\ pc' = "aborted"
          /\ UNCHANGED <<A, A_pos, probes, q>>
  /\ UNCHANGED <<common, i, result, p, r, depth, part_x, part_i, j,
                 minVars, psVars, bsVars>>

PivotRankAbsolute == q

\* k = q - p
PivotRank == q - p

FoundOrBelow == i <= PivotRank

\* if i == k
Found == i = PivotRank

QuickselectOutput ==
  /\ alg = "quickselect" /\ pc = "qs_branch"
  /\ Found
  /\ probes' = finalize(push(probes, "OUTPUT",
                             [median |-> mask_one(At(A_pos, q), n)]))
  /\ result' = At(A, q)
  /\ Goto("done")
  /\ UNCHANGED <<common, A, i, qsVars, minVars, psVars, bsVars>>

CallSameRank(np, nr, ni) ==
  IF depth + 1 < RecursionLimit
  THEN /\ p' = np
       /\ r' = nr
       /\ i' = i
       /\ depth' = depth + 1
       /\ pc' = "qs_call"
       /\ err' = err
  ELSE /\ err' = "RecursionError"
       /\ pc' = "aborted"
       /\ UNCHANGED <<p, r, i, depth>>

\* a nested call; Python refuses it once the stack is RecursionLimit deep
Call(np, nr, ni) ==
  IF depth + 1 < RecursionLimit
  THEN /\ p' = np
       /\ r' = nr
       /\ i' = ni
       /\ depth' = depth + 1
       /\ pc' = "qs_call"
       /\ err' = err
  ELSE /\ err' = "RecursionError"
       /\ pc' = "aborted"
       /\ UNCHANGED <<p, r, i, depth>>

\* elif i < k: return quickselect(A, A_pos, p, q - 1, i, probes)
QuickselectLeft ==
  /\ alg = "quickselect" /\ pc = "qs_branch"
  /\ ~Found /\ i < PivotRank
  /\ Call(p, q - 1, i)
  /\ UNCHANGED <<common, A, probes, result, A_pos, q, part_x, part_i, j,
                 minVars, psVars, bsVars>>

\* else: return quickselect(A, A_pos, q + 1, r, i - k - 1, probes)
QuickselectRight ==
  /\ alg = "quickselect" /\ pc = "qs_branch"
  /\ ~Found /\ ~(i < PivotRank)
  /\ Call(q + 1, r, i - PivotRank - 1)
  /\ UNCHANGED <<common, A, probes, result, A_pos, q, part_x, part_i, j,
                 minVars, psVars, bsVars>>

Next ==
  \/ MinimumStart
  \/ MinimumLoop
  \/ MinimumFinish
  \/ ParallelFindStart
  \/ ParallelFindReturn
  \/ ParallelFindRaise
  \/ ParallelSearchStart
  \/ ParallelSearchLoop
  \/ ParallelSearchFinish
  \/ BinarySearchStart
  \/ BinarySearchLoop
  \/ BinarySearchFinish
  \/ QuickselectEnter
  \/ PartitionScan
  \/ PartitionClose
  \/ QuickselectOutput
  \/ QuickselectLeft
  \/ QuickselectRight

Spec == Init /\ [][Next]_vars

\* the calls on arrays over the values 1..FairMaxVal
InitFair == Init /\ \A k \in DOMAIN A0 : A0[k] <= FairMaxVal

\* the call is one synchronous thread: it keeps running until it returns or
\* raises; termination is checked on the arrays of InitFair
FairSpec == InitFair /\ [][Next]_vars /\ WF_vars(Next)

\* ---- vocabulary of the properties ------------------------------------------
Finished(name) == alg = name /\ pc = "done"

Indices == 0..(n - 1)

Sorted(arr) == \A a, b \in DOMAIN arr : a < b => arr[a] <= arr[b]

\* the value at index k of the sorted copy of arr
KthSmallest(arr, k) ==
  CHOOSE v \in Val : /\ Cardinality({m \in DOMAIN arr : arr[m] < v}) <= k
                     /\ k < Cardinality({m \in DOMAIN arr : arr[m] <= v})

\* v is the vector of length len with a single 1, at idx
IsOneHot(v, idx, len) ==
  /\ DOMAIN v = 0..(len - 1)
  /\ idx \in DOMAIN v
  /\ \A k \in DOMAIN v : v[k] = 1 <=> k = idx
  /\ \A k \in DOMAIN v : v[k] \in {0, 1}

ValidRank == i0 \in Indices

OutputProbe == Pushed(probes, "OUTPUT")[1].probe

\* ---- C1 ---------------------------------------------------------------------
\* C1: a top-level quickselect call with a rank 0 <= i < len(A) returns the
\* i-th smallest value of the original contents of A.
C1_QuickselectReturnsRank ==
  (Finished("quickselect") /\ ValidRank) => result = KthSmallest(A0, i0)

\* a finished selection that went through nested calls and reordered the array
C1_Witness ==
  /\ Finished("quickselect") /\ ValidRank
  /\ depth >= 2
  /\ A # A0
  /\ p > 0
  /\ result = KthSmallest(A0, i0)

\* ---- C2 ---------------------------------------------------------------------
\* C2: on a sorted array and a target not above its maximum, binary_search
\* returns the smallest index k with A[k] >= x.
C2_BinarySearchLowerBound ==
  (Finished("binary_search") /\ Sorted(A) /\ (\E k \in Indices : A[k] >= x))
    => /\ result \in Indices
       /\ A[result] >= x
       /\ \A k \in Indices : k < result => A[k] < x

\* the target occurs twice in a sorted array of four; the left one is returned
C2_Witness ==
  /\ Finished("binary_search") /\ Sorted(A)
  /\ n = 4
  /\ result = 1
  /\ A[1] = x /\ A[2] = x /\ A[0] < x

\* ---- C3 ---------------------------------------------------------------------
\* C3: minimum returns the lowest index holding the minimal value, and its
\* OUTPUT push is the one-hot vector of that index.
C3_MinimumFirstOccurrence ==
  Finished("minimum")
    => /\ result \in Indices
       /\ \A k \in Indices : A[result] <= A[k]
       /\ \A k \in Indices : k < result => A[k] > A[result]
       /\ IsOneHot(OutputProbe.min, result, n)

\* the minimal value occurs twice, neither time at index 0
C3_Witness ==
  /\ Finished("minimum")
  /\ result = 1
  /\ \E k \in Indices : k > result /\ A[k] = A[result]
  /\ A[0] > A[result]

\* ---- C4 ---------------------------------------------------------------------
\* the arguments meet the call's precondition
ValidInput ==
  /\ alg = "quickselect" => ValidRank
  /\ alg = "parallel_find" => where(A0, x) # {}

\* the pushes so far are a prefix of INPUT, HINT*, OUTPUT and none was refused;
\* finalize has run only after the OUTPUT push, exactly when the call returned
TraceInOrder ==
  LET s == Stages(probes)
  IN /\ probes.error = ""
     /\ pc # "aborted"
     /\ pc # "start" => (Len(s) >= 1 /\ s[1] = "INPUT")
     /\ \A k \in 2..Len(s) : s[k] \in {"HINT", "OUTPUT"}
     /\ \A k \in 1..Len(s) : s[k] = "OUTPUT" => k = Len(s)
     /\ probes.finalized \in {0, 1}
     /\ probes.finalized = 1 <=> (Len(s) >= 2 /\ s[Len(s)] = "OUTPUT")
     /\ probes.finalized = 1 <=> pc = "done"

\* the trace is frozen once finalized; within quickselect INPUT comes from the
\* outermost activation and OUTPUT (with finalize) from the one where i = k
TraceStep ==
  /\ probes.finalized = 1 => probes' = probes
  /\ Count(probes', "INPUT") > Count(probes, "INPUT") => depth = 0
  /\ (alg = "quickselect" /\ Count(probes', "OUTPUT") > Count(probes, "OUTPUT"))
       => (i = q - p /\ probes'.finalized = 1)
  /\ (alg = "quickselect" /\ probes'.finalized # probes.finalized) => i = q - p

\* C4: on a valid input every algorithm performs one INPUT push, then HINT
\* pushes, then one OUTPUT push, then one finalize, and nothing afterwards; in
\* quickselect only the outermost activation pushes INPUT and only the
\* activation with i = k pushes OUTPUT and finalizes.
C4_TraceProtocol ==
  /\ [](ValidInput => TraceInOrder)
  /\ [][ValidInput => TraceStep]_vars

\* a finalized quickselect trace produced by a nested activation
C4_Witness ==
  /\ Finished("quickselect") /\ ValidRank
  /\ depth >= 1
  /\ probes.finalized = 1
  /\ Len(Hints(probes)) >= 3
  /\ Stages(probes)[Len(probes.log)] = "OUTPUT"

\* ---- C5 ---------------------------------------------------------------------
IsPermutation(f) ==
  /\ DOMAIN f = Indices
  /\ {f[k] : k \in DOMAIN f} = Indices

\* C5: during a quickselect call with a valid rank the Position Array is a
\* permutation of 0..n-1 at every HINT push, after every partition call and at
\* the OUTPUT push.
C5_PositionArrayPermutation ==
  (alg = "quickselect" /\ ValidRank /\ pc \in {"partition", "qs_branch", "qs_call", "done"})
    => IsPermutation(A_pos)

\* a partition call has returned after moving entries of the Position Array
C5_Witness ==
  /\ alg = "quickselect" /\ ValidRank
  /\ pc = "qs_branch"
  /\ A_pos # arange(n)
  /\ depth >= 1
  /\ IsPermutation(A_pos)

\* ---- C6 ---------------------------------------------------------------------
\* the mask pushed as the single HINT of parallel_search
PushedMask == Hints(probes)[1].probe.geq_target

\* C6: the value parallel_search returns, and pushes as its raw OUTPUT, is the
\* smallest index at which the pushed mask B is 1; for a sorted A it is the
\* lower bound of x in A.
C6_ReturnIsFirstOne ==
  Finished("parallel_search")
    => /\ OutputProbe.return = result
       /\ result \in DOMAIN PushedMask
       /\ PushedMask[result] = 1
       /\ \A k \in DOMAIN PushedMask : k < result => PushedMask[k] # 1
       /\ Sorted(A) => /\ \A k \in Indices : k < result => A[k] < x
                       /\ \A k \in Indices : k >= result => A[k] >= x

\* ---- C7 ---------------------------------------------------------------------
\* C7: the single HINT of parallel_search is a vector B of length len(A) with
\* B[k] = 0 where A[k] < x and B[k] = 1 elsewhere.
C7_MaskIsComparison ==
  Finished("parallel_search")
    => /\ Len(Hints(probes)) = 1
       /\ DOMAIN PushedMask = Indices
       /\ \A k \in Indices : PushedMask[k] = (IF A[k] < x THEN 0 ELSE 1)

\* ---- C8 ---------------------------------------------------------------------
\* C8: when x occurs in A, parallel_find pushes no HINT and returns the lowest
\* index holding x, with OUTPUT its one-hot vector; when x does not occur the
\* call aborts after the INPUT push, without OUTPUT, finalize or result.
C8_ParallelFind ==
  alg = "parallel_find"
    => /\ Len(Hints(probes)) = 0
       /\ pc = "done"
            => /\ result \in Indices
               /\ A[result] = x
               /\ \A k \in Indices : k < result => A[k] # x
               /\ IsOneHot(OutputProbe.return, result, n)
               /\ probes.finalized = 1
       /\ pc = "aborted"
            => /\ \A k \in Indices : A[k] # x
               /\ err = "IndexError"
               /\ Stages(probes) = <<"INPUT">>
       /\ (\A k \in Indices : A[k] # x)
            => /\ pc # "done"
               /\ Count(probes, "OUTPUT") = 0
               /\ probes.finalized = 0
               /\ result = 0 - 1
       /\ (\E k \in Indices : A[k] = x) => pc # "aborted"

\* the target occurs twice, not at index 0, and the first match is returned
C8_Witness ==
  /\ Finished("parallel_find")
  /\ result = 1
  /\ A[1] = x
  /\ \E k \in Indices : k > 1 /\ A[k] = x

\* ---- C9 ---------------------------------------------------------------------
RECURSIVE CeilLog2(_)
CeilLog2(m) == IF m <= 1 THEN 0 ELSE 1 + CeilLog2((m + 1) \div 2)

RECURSIVE FloorLog2(_)
FloorLog2(m) == IF m <= 1 THEN 0 ELSE 1 + FloorLog2(m \div 2)

\* C9 (as stated): binary_search pushes exactly 1 + ceil(log2 n) HINTs,
\* whatever the values of A and x.
C9_HintCountExact ==
  Finished("binary_search") => Len(Hints(probes)) = 1 + CeilLog2(n)

\* C9 (amended): binary_search pushes at least 1 + floor(log2 n) and at most
\* 1 + ceil(log2 n) HINTs.
C9_HintCountRange ==
  Finished("binary_search")
    => /\ Len(Hints(probes)) >= 1 + FloorLog2(n)
       /\ Len(Hints(probes)) <= 1 + CeilLog2(n)

\* a search over three elements that ends after a single iteration
C9_Witness ==
  /\ Finished("binary_search")
  /\ n = 3
  /\ Len(Hints(probes)) = 2
  /\ result = 2

\* ---- C10 --------------------------------------------------------------------
\* lowest index of the minimal value among arr[0..t]
FirstMinUpTo(arr, t) ==
  CHOOSE m \in 0..t : /\ \A k \in 0..t : arr[m] <= arr[k]
                      /\ \A k \in 0..(m - 1) : arr[k] > arr[m]

\* C10: minimum pushes exactly n HINTs; the first has incumbent 0 and scan
\* pointer 0, the (t+1)-th has scan pointer t and incumbent the lowest index of
\* the minimum of A[0..t]; each carries the identity predecessor array.
C10_MinimumHints ==
  alg = "minimum"
    => LET h == Hints(probes)
       IN /\ pc = "done" => Len(h) = n
          /\ pc = "min_loop" => Len(h) = i
          /\ \A t \in 0..(Len(h) - 1) :
               /\ IsOneHot(h[t + 1].probe.i, t, n)
               /\ IsOneHot(h[t + 1].probe.min_h, FirstMinUpTo(A, t), n)
               /\ h[t + 1].probe.pred_h = [k \in Indices |-> k]

\* a finished scan of four elements whose incumbent changed twice
C10_Witness ==
  /\ Finished("minimum")
  /\ n = 4
  /\ Len(Hints(probes)) = 4
  /\ A[0] > A[1] /\ A[1] > A[3] /\ A[2] >= A[1]
  /\ result = 3

\* ---- C11 --------------------------------------------------------------------
\* a step of quickselect that pushes a HINT
HintPushed ==
  alg = "quickselect" /\ Len(Hints(probes')) = Len(Hints(probes)) + 1

\* the most recent HINT
LastHint(pr) == Hints(pr)[Len(Hints(pr))].probe

\* C11 (as stated): every HINT of one top-level quickselect call carries the
\* same target, i0 / n, also after a descent into the right sub-window.
C11_TargetConstant ==
  alg = "quickselect"
    => \A k \in 1..Len(Hints(probes)) : Hints(probes)[k].probe.target = Frac(i0, n)

\* C11 (amended): every HINT carries target = i / n for the rank i its own
\* activation was called with, which is i0 - p for the activation's window
\* [p, r]; the denominator is always the original length n.
C11_TargetIsActivationRank ==
  /\ [](alg = "quickselect" => i = i0 - p)
  /\ [][HintPushed => /\ LastHint(probes').target = Frac(i, n)
                      /\ LastHint(probes').target = Frac(i0 - p, n)
                      /\ i' = i /\ p' = p]_vars

\* a HINT pushed inside a right sub-window, whose target is below i0 / n
C11_Witness ==
  /\ alg = "quickselect" /\ ValidRank
  /\ pc = "partition"
  /\ p > 0 /\ j > p
  /\ LastHint(probes).target = Frac(i0 - p, n)
  /\ LastHint(probes).target # Frac(i0, n)

\* ---- C12 --------------------------------------------------------------------
\* exactly one push of each stage
OnePushPerStage ==
  /\ Count(probes, "INPUT") = 1
  /\ Count(probes, "HINT") = 1
  /\ Count(probes, "OUTPUT") = 1

SingleElementCall ==
  /\ n = 1
  /\ pc = "done"
  /\ alg \in {"minimum", "binary_search", "quickselect"}
  /\ alg = "binary_search" => x <= A0[0]
  /\ alg = "quickselect" => i0 = 0

\* C12 (as stated): on a single-element array minimum, binary_search and
\* quickselect(i=0) all return index 0, with one INPUT, one HINT, one OUTPUT.
C12_SingleElementIndexZero ==
  SingleElementCall => (result = 0 /\ OnePushPerStage)

\* C12 (amended): on a single-element array [a], minimum and binary_search
\* return index 0 and quickselect(i=0) returns the value a with OUTPUT the
\* one-hot vector of index 0; each trace has one INPUT, one HINT, one OUTPUT.
C12_SingleElement ==
  SingleElementCall
    => /\ alg \in {"minimum", "binary_search"} => result = 0
       /\ alg = "quickselect" => /\ result = A0[0]
                                 /\ IsOneHot(OutputProbe.median, 0, 1)
       /\ OnePushPerStage

\* quickselect has finished on a single element and returned that element
C12_Witness ==
  /\ SingleElementCall
  /\ alg = "quickselect"
  /\ result = A0[0] /\ result # 0
  /\ OnePushPerStage

\* ---- C13 --------------------------------------------------------------------
\* nothing of a completed call is visible: no OUTPUT, no finalize, no result
NothingReturned ==
  /\ pc # "done"
  /\ Count(probes, "OUTPUT") = 0
  /\ probes.finalized = 0
  /\ result = 0 - 1

\* C13: a top-level quickselect call whose rank is negative or >= n ends by
\* raising an error; it never pushes OUTPUT, never finalizes, never returns.
C13_InvalidRankAborts ==
  /\ (alg = "quickselect" /\ ~ValidRank)
       ~> (pc = "aborted" /\ err \in {"IndexError", "RecursionError"})
  /\ []((alg = "quickselect" /\ ~ValidRank) => NothingReturned)

\* a call with rank n has run off the right end of the array inside a
\* nested activation, after HINTs were pushed
C13_Witness ==
  /\ alg = "quickselect" /\ i0 = n
  /\ pc = "aborted" /\ err = "IndexError"
  /\ depth >= 2
  /\ Len(Hints(probes)) >= 3
  /\ NothingReturned

\* ---- C14 --------------------------------------------------------------------
AboveMaximum == \A k \in Indices : x > A[k]

\* C14: for a target above every element binary_search raises no error and
\* returns the last index, with OUTPUT the one-hot vector of that index.
C14_AboveMaximumReturnsLast ==
  /\ (alg = "binary_search" /\ AboveMaximum) ~> (pc = "done")
  /\ []((alg = "binary_search" /\ AboveMaximum)
          => /\ pc # "aborted" /\ err = ""
             /\ pc = "done" => /\ result = n - 1
                               /\ IsOneHot(OutputProbe.return, n - 1, n)
                               /\ probes.finalized = 1)

\* a finished search over four elements, all below the target
C14_Witness ==
  /\ Finished("binary_search") /\ AboveMaximum
  /\ n = 4
  /\ result = 3
  /\ Len(Hints(probes)) = 3

\* ---- C15 --------------------------------------------------------------------
\* C15: quickselect(A, i=0) returns the value at the index minimum(A) returns
\* on the original array, and its OUTPUT is the one-hot vector of that index,
\* also when the minimal value occurs several times.
C15_RankZeroMatchesMinimum ==
  (Finished("quickselect") /\ i0 = 0)
    => /\ result = A0[MinimumOf(A0)]
       /\ IsOneHot(OutputProbe.median, MinimumOf(A0), n)

\* the minimum occurs twice, its first occurrence is not at index 0 and the
\* selection needed nested calls
C15_Witness ==
  /\ Finished("quickselect") /\ i0 = 0
  /\ n = 4
  /\ depth >= 1
  /\ MinimumOf(A0) = 1
  /\ \E k \in Indices : k > 1 /\ A0[k] = A0[1]
  /\ IsOneHot(OutputProbe.median, 1, n)

\* ---- C16 --------------------------------------------------------------------
BinarySearchRunning == alg = "binary_search" /\ pc \in {"bs_loop", "done"}

\* the HINT records lo, hi and (lo + hi) // 2 as one-hot vectors
HintRecords(h, lo, hi) ==
  /\ IsOneHot(h.low, lo, n)
  /\ IsOneHot(h.high, hi, n)
  /\ IsOneHot(h.mid, (lo + hi) \div 2, n)
  /\ lo <= (lo + hi) \div 2
  /\ (lo + hi) \div 2 <= hi

\* C16: in binary_search 0 <= low <= high <= n - 1 always holds, every HINT
\* records low, high and mid = (low + high) // 2 with low <= mid <= high,
\* high - low strictly decreases on every iteration, and the loop ends, exactly
\* when low = high.
C16_BinarySearchInterval ==
  /\ [](BinarySearchRunning
          => /\ 0 <= low /\ low <= high /\ high <= n - 1
             /\ HintRecords(Hints(probes)[Len(Hints(probes))].probe, low, high)
             /\ pc = "done" <=> probes.finalized = 1
             /\ pc = "done" => (low = high /\ result = high))
  /\ [][(BinarySearchRunning /\ (low' # low \/ high' # high
                                  \/ Len(Hints(probes')) # Len(Hints(probes))))
          => /\ low < high
             /\ high' - low' < high - low
             /\ Len(Hints(probes')) = Len(Hints(probes)) + 1]_vars
  /\ [][(BinarySearchRunning /\ pc' = "done" /\ pc # "done") => low = high]_vars
  /\ (alg = "binary_search") ~> (pc = "done")

\* a search over four elements that moved both ends of the interval
C16_Witness ==
  /\ Finished("binary_search")
  /\ n = 4
  /\ low = 1 /\ high = 1
  /\ Len(Hints(probes)) = 3
  /\ HintRecords(Hints(probes)[2].probe, 0, 1)

\* ---- C17 --------------------------------------------------------------------
\* A is the original contents read through the Position Array
Lockstep ==
  /\ DOMAIN A_pos = Indices
  /\ \A idx \in Indices : A_pos[idx] \in Indices /\ A[idx] = A0[A_pos[idx]]

\* C17: throughout a quickselect call A[idx] = A0[A_pos[idx]] for every idx, at
\* every HINT push and at the OUTPUT push, so the original index encoded in
\* OUTPUT is a position of A0 that holds the returned value.
C17_PositionArrayLockstep ==
  (alg = "quickselect" /\ pc # "start")
    => /\ Lockstep
       /\ pc = "done"
            => \E m \in Indices : /\ IsOneHot(OutputProbe.median, m, n)
                                  /\ A0[m] = result
                                  /\ m = A_pos[q]

\* a finished selection whose answer ended at another index than it started
C17_Witness ==
  /\ Finished("quickselect") /\ ValidRank
  /\ A # A0
  /\ A_pos[q] # q
  /\ A0[A_pos[q]] = result
  /\ A0[q] # result
  /\ Lockstep

\* ---- C18 --------------------------------------------------------------------
ValidSelection == alg = "quickselect" /\ ValidRank /\ pc # "start"

\* C18: from a valid top-level call every activation has p <= r and
\* 0 <= i < r - p + 1, every nested window lies inside its parent's and is
\* strictly smaller, and the call ends after at most n partition calls.
C18_WindowsShrink ==
  /\ [](ValidSelection
          => /\ 0 <= p /\ p <= r /\ r <= n - 1
             /\ 0 <= i /\ i < r - p + 1
             /\ pc # "aborted"
             /\ depth + 1 <= n
             /\ depth + (r - p + 1) <= n)
  /\ [][(ValidSelection /\ depth' # depth)
          => /\ depth' = depth + 1
             /\ p <= p' /\ r' <= r
             /\ r' - p' < r - p]_vars
  /\ (alg = "quickselect" /\ ValidRank) ~> (pc = "done")

\* a selection that needed one partition call per element
C18_Witness ==
  /\ Finished("quickselect") /\ ValidRank
  /\ n = 4
  /\ depth + 1 = n
  /\ p = r

\* ---- C19 --------------------------------------------------------------------
\* partition is running, or has just returned, on a window with p <= r
InPartition == alg = "quickselect" /\ pc = "partition" /\ p <= r

\* C19: a partition call on a window [p, r] with p <= r returns q in p..r with
\* A[q] the pivot (A[r] on entry), A[t] <= A[q] for p <= t < q and
\* A[t] > A[q] for q < t <= r, and changes no entry of A or A_pos outside
\* [p, r].
C19_PartitionPostcondition ==
  /\ []((alg = "quickselect" /\ pc = "qs_branch" /\ p <= r)
          => /\ p <= q /\ q <= r
             /\ A[q] = part_x
             /\ \A t \in p..(q - 1) : A[t] <= A[q]
             /\ \A t \in (q + 1)..r : A[t] > A[q])
  /\ [][(alg = "quickselect" /\ pc' = "partition" /\ pc # "partition" /\ p' <= r')
          => (part_x' = A[r'] /\ A' = A /\ A_pos' \in {A_pos, arange(n)})]_vars
  /\ [][InPartition
          => /\ part_x' = part_x /\ p' = p /\ r' = r
             /\ \A idx \in Indices \ (p..r) :
                  A'[idx] = A[idx] /\ A_pos'[idx] = A_pos[idx]]_vars

\* a partition call on a right sub-window has returned with elements on both
\* sides of the pivot
C19_Witness ==
  /\ alg = "quickselect" /\ pc = "qs_branch"
  /\ p > 0 /\ p < q /\ q < r
  /\ A[q] = part_x
  /\ A[p] <= A[q] /\ A[r] > A[q]

\* ---- C20 --------------------------------------------------------------------
\* C20: in every HINT of a partition call on window [p, r], scan-step and
\* closing alike and for p > 0 as for p = 0, i_rank is the number of window
\* elements placed in the less-than-or-equal region so far over n, that is
\* (boundary index - p) / n with boundary index i + 1.
C20_IRankIsPartitionSize ==
  [][(HintPushed /\ p <= r)
       => LastHint(probes').i_rank = Frac(part_i' + 1 - p, n)]_vars
====
